---- MODULE Spec2Model ----
(***************************************************************************)
(* Model of the idea store of idea-library (docs/js/db.js, bundled in      *)
(* docs/js/app.js): class IdeaDatabase over an in-browser SQL database     *)
(* that is exported, base64-encoded and written to one localStorage slot   *)
(* after every mutation; and of the form of class IdeaApp that calls it:  *)
(* the submit handler and the tag widget with its suggestion dropdown.     *)
(*                                                                         *)
(* Text is modelled as a sequence of character codes, so that trimming,    *)
(* JSON encoding of the tags, ISO formatting of the timestamps and the     *)
(* base64 encoding of the database image are computed, not assumed.        *)
(***************************************************************************)
EXTENDS Integers, Sequences, FiniteSets, TLC

VARIABLES db, slot, clock, ready, rejected, call, issued, other, ui

vars == <<db, slot, clock, ready, rejected, call, issued, other, ui>>

(***************************************************************************)
(* Bounds of the model.                                                    *)
(***************************************************************************)
\* the wall clock runs from FirstInstant to FirstInstant + MaxTime
FirstInstant == 9
MaxTime == 1
\* number of localStorage writes that may be rejected in one behaviour
MaxWriteFailures == 1
\* under SpecListing the clock runs to FirstInstant + MaxListingTime
MaxListingTime == 3

(***************************************************************************)
(* Text.                                                                   *)
(***************************************************************************)
\* SQL NULL / JavaScript null in a text position: not a character sequence
Null == <<-1>>
\* JavaScript null in an array-of-text position
NullArray == <<Null>>

EmptyText == <<>>
Blank == <<32>>
Text_a == <<97>>
Text_b == <<98>>
Text_c == <<99>>
Text_d == <<100>>
Text_t == <<116>>
Text_u == <<117>>
Text_UpperB == <<66>>
Text_captured == <<99, 97, 112, 116, 117, 114, 101, 100>>

WhiteSpace == {9, 10, 11, 12, 13, 32}

RECURSIVE TrimStart(_)
TrimStart(s) ==
    IF s # <<>> /\ Head(s) \in WhiteSpace THEN TrimStart(Tail(s)) ELSE s

RECURSIVE TrimEnd(_)
TrimEnd(s) ==
    IF s # <<>> /\ s[Len(s)] \in WhiteSpace
    THEN TrimEnd(SubSeq(s, 1, Len(s) - 1))
    ELSE s

\* String.prototype.trim
Trim(s) == TrimEnd(TrimStart(s))

\* lexicographic comparison of two texts by character code (SQLite BINARY
\* collation, JavaScript string comparison)
RECURSIVE TextLess(_, _)
TextLess(s, t) ==
    IF t = <<>> THEN FALSE
    ELSE IF s = <<>> THEN TRUE
    ELSE IF Head(s) # Head(t) THEN Head(s) < Head(t)
    ELSE TextLess(Tail(s), Tail(t))

TextLeq(s, t) == s = t \/ TextLess(s, t)

RECURSIVE Flatten(_)
Flatten(ss) == IF ss = <<>> THEN <<>> ELSE Head(ss) \o Flatten(Tail(ss))

(***************************************************************************)
(* new Date().toISOString(): a fixed-width, zero-padded decimal rendering  *)
(* of the instant, so that text order is time order.                       *)
(***************************************************************************)
\* toISOString as it would be without zero padding
toISOString_Unpadded(t) ==
    IF t < 10 THEN <<48 + t>> ELSE <<48 + ((t \div 10) % 10), 48 + (t % 10)>>

toISOString(t) == <<48 + ((t \div 10) % 10), 48 + (t % 10)>>

(***************************************************************************)
(* JSON.stringify / JSON.parse on the values the store hands them: null    *)
(* and arrays of strings (without quote or backslash characters).          *)
(***************************************************************************)
Quote == 34
Comma == 44
LBracket == 91
RBracket == 93
JsonNullText == <<110, 117, 108, 108>>

\* the items as they would be written if an item equal to an earlier one
\* were left out
RECURSIVE JsonItems_Deduplicated(_)
JsonItems_Deduplicated(items) ==
    IF items = <<>> THEN <<>>
    ELSE LET rest == SelectSeq(Tail(items), LAMBDA x : x # Head(items))
         IN  <<Quote>> \o Head(items) \o <<Quote>>
             \o (IF rest # <<>> THEN <<Comma>> ELSE <<>>)
             \o JsonItems_Deduplicated(rest)

RECURSIVE JsonItems(_)
JsonItems(items) ==
    IF items = <<>> THEN <<>>
    ELSE <<Quote>> \o Head(items) \o <<Quote>>
         \o (IF Len(items) > 1 THEN <<Comma>> ELSE <<>>)
         \o JsonItems(Tail(items))

JSONstringify(v) ==
    IF v = NullArray THEN JsonNullText
    ELSE <<LBracket>> \o JsonItems(v) \o <<RBracket>>

\* position of the first quote character of s at or after index i, 0 if none
RECURSIVE NextQuote(_, _)
NextQuote(s, i) ==
    IF i > Len(s) THEN 0
    ELSE IF s[i] = Quote THEN i
    ELSE NextQuote(s, i + 1)

\* parses  "x","y",...  from index i; the result is [ok, items]
RECURSIVE ParseItems(_, _)
ParseItems(s, i) ==
    IF i > Len(s) \/ s[i] # Quote THEN [ok |-> FALSE, items |-> <<>>]
    ELSE LET j == NextQuote(s, i + 1) IN
         IF j = 0 THEN [ok |-> FALSE, items |-> <<>>]
         ELSE LET item == SubSeq(s, i + 1, j - 1) IN
              IF j = Len(s) THEN [ok |-> TRUE, items |-> <<item>>]
              ELSE IF s[j + 1] # Comma THEN [ok |-> FALSE, items |-> <<>>]
              ELSE LET rest == ParseItems(s, j + 2) IN
                   [ok |-> rest.ok, items |-> <<item>> \o rest.items]

\* JSON.parse: [ok |-> FALSE] stands for the SyntaxError it throws
JSONparse(s) ==
    IF s = JsonNullText THEN [ok |-> TRUE, value |-> NullArray]
    ELSE IF Len(s) < 2 \/ s[1] # LBracket \/ s[Len(s)] # RBracket
         THEN [ok |-> FALSE, value |-> <<>>]
    ELSE IF Len(s) = 2 THEN [ok |-> TRUE, value |-> <<>>]
    ELSE LET r == ParseItems(SubSeq(s, 2, Len(s) - 1), 1) IN
         [ok |-> r.ok, value |-> r.items]

(***************************************************************************)
(* Base64 (btoa / atob) over character codes 0..255.                       *)
(***************************************************************************)
PadChar == 61

B64Char(i) ==
    IF i < 26 THEN 65 + i
    ELSE IF i < 52 THEN 97 + (i - 26)
    ELSE IF i < 62 THEN 48 + (i - 52)
    ELSE IF i = 62 THEN 43
    ELSE 47

B64Index(c) ==
    IF c >= 65 /\ c <= 90 THEN c - 65
    ELSE IF c >= 97 /\ c <= 122 THEN c - 97 + 26
    ELSE IF c >= 48 /\ c <= 57 THEN c - 48 + 52
    ELSE IF c = 43 THEN 62
    ELSE IF c = 47 THEN 63
    ELSE 0

btoa(binary) ==
    LET n == Len(binary)
        at(i) == IF i <= n THEN binary[i] ELSE 0
        sextet(k, j) ==
            LET b0 == at(3 * k + 1)
                b1 == at(3 * k + 2)
                b2 == at(3 * k + 3)
            IN  CASE j = 0 -> b0 \div 4
                  [] j = 1 -> (b0 % 4) * 16 + (b1 \div 16)
                  [] j = 2 -> (b1 % 16) * 4 + (b2 \div 64)
                  [] j = 3 -> b2 % 64
        out(i) ==
            LET k == (i - 1) \div 4
                j == (i - 1) % 4
            IN  IF j >= 2 /\ 3 * k + j > n THEN PadChar
                ELSE B64Char(sextet(k, j))
    IN  [i \in 1..(4 * ((n + 2) \div 3)) |-> out(i)]

\* atob throws InvalidCharacterError unless its argument, after up to two
\* padding characters at the end of a length that is a multiple of four are
\* dropped, consists of base64 characters and has a length that is not one
\* more than a multiple of four
IsBase64(text) ==
    IF text = Null THEN FALSE
    ELSE LET n == Len(text)
             pad == IF n % 4 # 0 \/ n = 0 THEN 0
                    ELSE IF text[n] # PadChar THEN 0
                    ELSE IF text[n - 1] = PadChar THEN 2
                    ELSE 1
         IN  /\ (n - pad) % 4 # 1
             /\ \A i \in 1..(n - pad) : B64Char(B64Index(text[i])) = text[i]

atob(base64) ==
    LET n == Len(base64)
        pad == IF n >= 2 /\ base64[n - 1] = PadChar THEN 2
               ELSE IF n >= 1 /\ base64[n] = PadChar THEN 1
               ELSE 0
        v(i) == B64Index(base64[i])
        byte(i) ==
            LET k == (i - 1) \div 3
                r == (i - 1) % 3
            IN  CASE r = 0 -> v(4 * k + 1) * 4 + (v(4 * k + 2) \div 16)
                  [] r = 1 -> (v(4 * k + 2) % 16) * 16 + (v(4 * k + 3) \div 4)
                  [] r = 2 -> (v(4 * k + 3) % 4) * 64 + v(4 * k + 4)
    IN  [i \in 1..(3 * (n \div 4) - pad) |-> byte(i)]

\* fromCharCode as it would be if bytes were taken for 7-bit characters
fromCharCode_SevenBit(b) == b % 128

\* String.fromCharCode / charCodeAt: a character is its code
fromCharCode(b) == b
charCodeAt(binary, i) == binary[i]

uint8ArrayToBase64(uint8Array) ==
    btoa([i \in 1..Len(uint8Array) |-> fromCharCode(uint8Array[i])])

base64ToUint8Array(base64) ==
    LET binary == atob(base64)
    IN  [i \in 1..Len(binary) |-> charCodeAt(binary, i)]

(***************************************************************************)
(* The SQL database held in this.db.  A database is its column list and    *)
(* its rows in rowid order; a row maps each column to a text or to Null.   *)
(***************************************************************************)
DB_VERSION == 1

\* columns of CREATE TABLE ideas, in declaration order
SchemaColumns ==
    <<"id", "title", "body", "stage", "tags", "essence", "insight",
      "next_action", "created_at", "updated_at">>

\* columns of the table created by the revision of db.js without tags
OldSchemaColumns ==
    <<"id", "title", "body", "stage", "essence", "insight",
      "next_action", "created_at", "updated_at">>

NotNullColumns == {"id", "title", "body", "stage", "created_at", "updated_at"}

EmptyArrayText == <<LBracket, RBracket>>

\* DEFAULT clause of a column
ColumnDefault(c) ==
    IF c = "stage" THEN Text_captured
    ELSE IF c = "tags" THEN EmptyArrayText
    ELSE Null

Range(f) == {f[i] : i \in DOMAIN f}

\* this.db = null
NoDatabase == [open |-> FALSE, cols |-> <<>>, rows |-> <<>>]

\* createSchema as it was before the tags column was added
createSchema_WithoutTags ==
    [open |-> TRUE, cols |-> OldSchemaColumns, rows |-> <<>>]

\* new SQL.Database() followed by createSchema()
createSchema == [open |-> TRUE, cols |-> SchemaColumns, rows |-> <<>>]

\* the INSERT as it would be if the table rejected a title or a body that
\* is empty after trimming
SqlInsert_RejectsBlank(d, id, title, body, tagsJson, now) ==
    LET given == [id |-> id, title |-> title, body |-> body,
                  stage |-> Text_captured, tags |-> tagsJson,
                  created_at |-> now, updated_at |-> now]
        row == [c \in Range(d.cols) |->
                   IF c \in DOMAIN given THEN given[c] ELSE ColumnDefault(c)]
        violates == \/ \E i \in DOMAIN d.rows : d.rows[i].id = id
                    \/ \E c \in NotNullColumns : row[c] = Null
                    \/ ~ (DOMAIN given \subseteq Range(d.cols))
                    \/ Trim(title) = <<>>
                    \/ Trim(body) = <<>>
    IN  IF violates THEN [ok |-> FALSE, db |-> d]
        ELSE [ok |-> TRUE, db |-> [d EXCEPT !.rows = Append(d.rows, row)]]

\* the INSERT as it would be if id were not declared PRIMARY KEY
SqlInsert_NoPrimaryKey(d, id, title, body, tagsJson, now) ==
    LET given == [id |-> id, title |-> title, body |-> body,
                  stage |-> Text_captured, tags |-> tagsJson,
                  created_at |-> now, updated_at |-> now]
        row == [c \in Range(d.cols) |->
                   IF c \in DOMAIN given THEN given[c] ELSE ColumnDefault(c)]
        violates == \/ \E c \in NotNullColumns : row[c] = Null
                    \/ ~ (DOMAIN given \subseteq Range(d.cols))
    IN  IF violates THEN [ok |-> FALSE, db |-> d]
        ELSE [ok |-> TRUE, db |-> [d EXCEPT !.rows = Append(d.rows, row)]]

\* the INSERT as the revision of db.js without tags makes it: the tags
\* column is not in its column list
SqlInsert_WithoutTags(d, id, title, body, tagsJson, now) ==
    LET given == [id |-> id, title |-> title, body |-> body,
                  stage |-> Text_captured,
                  created_at |-> now, updated_at |-> now]
        row == [c \in Range(d.cols) |->
                   IF c \in DOMAIN given THEN given[c] ELSE ColumnDefault(c)]
        violates == \/ \E i \in DOMAIN d.rows : d.rows[i].id = id
                    \/ \E c \in NotNullColumns : row[c] = Null
                    \/ ~ (DOMAIN given \subseteq Range(d.cols))
    IN  IF violates THEN [ok |-> FALSE, db |-> d]
        ELSE [ok |-> TRUE, db |-> [d EXCEPT !.rows = Append(d.rows, row)]]

\* INSERT INTO ideas (id, title, body, stage, tags, created_at, updated_at):
\* fails on a PRIMARY KEY or NOT NULL violation ([ok |-> FALSE])
SqlInsert(d, id, title, body, tagsJson, now) ==
    LET given == [id |-> id, title |-> title, body |-> body,
                  stage |-> Text_captured, tags |-> tagsJson,
                  created_at |-> now, updated_at |-> now]
        row == [c \in Range(d.cols) |->
                   IF c \in DOMAIN given THEN given[c] ELSE ColumnDefault(c)]
        violates == \/ ~ (DOMAIN given \subseteq Range(d.cols))
                    \/ \E i \in DOMAIN d.rows : d.rows[i].id = id
                    \/ \E c \in NotNullColumns : row[c] = Null
    IN  IF violates THEN [ok |-> FALSE, db |-> d]
        ELSE [ok |-> TRUE, db |-> [d EXCEPT !.rows = Append(d.rows, row)]]

\* the UPDATE as it would be without its WHERE clause
SqlUpdate_NoWhere(d, id, assign) ==
    LET violates == \/ ~ (DOMAIN assign \subseteq Range(d.cols))
                    \/ /\ d.rows # <<>>
                       /\ \E c \in DOMAIN assign \cap NotNullColumns :
                              assign[c] = Null
        set(row) == [c \in DOMAIN row |->
                        IF c \in DOMAIN assign THEN assign[c] ELSE row[c]]
    IN  IF violates THEN [ok |-> FALSE, db |-> d]
        ELSE [ok |-> TRUE,
              db |-> [d EXCEPT !.rows =
                         [i \in DOMAIN d.rows |-> set(d.rows[i])]]]

\* the UPDATE as it would be if the table rejected a title or a body that
\* is empty after trimming
SqlUpdate_RejectsBlank(d, id, assign) ==
    LET violates == \/ ~ (DOMAIN assign \subseteq Range(d.cols))
                    \/ /\ \E i \in DOMAIN d.rows : d.rows[i].id = id
                       /\ \/ \E c \in DOMAIN assign \cap NotNullColumns :
                                 assign[c] = Null
                          \/ \E c \in DOMAIN assign \cap {"title", "body"} :
                                 Trim(assign[c]) = <<>>
        set(row) == [c \in DOMAIN row |->
                        IF c \in DOMAIN assign THEN assign[c] ELSE row[c]]
    IN  IF violates THEN [ok |-> FALSE, db |-> d]
        ELSE [ok |-> TRUE,
              db |-> [d EXCEPT !.rows =
                         [i \in DOMAIN d.rows |->
                             IF d.rows[i].id = id THEN set(d.rows[i])
                             ELSE d.rows[i]]]]

\* UPDATE ideas SET <assign> WHERE id = ?: assign maps columns to values
SqlUpdate(d, id, assign) ==
    LET violates == \/ ~ (DOMAIN assign \subseteq Range(d.cols))
                    \/ /\ \E i \in DOMAIN d.rows : d.rows[i].id = id
                       /\ \E c \in DOMAIN assign \cap NotNullColumns :
                              assign[c] = Null
        set(row) == [c \in DOMAIN row |->
                        IF c \in DOMAIN assign THEN assign[c] ELSE row[c]]
    IN  IF violates THEN [ok |-> FALSE, db |-> d]
        ELSE [ok |-> TRUE,
              db |-> [d EXCEPT !.rows =
                         [i \in DOMAIN d.rows |->
                             IF d.rows[i].id = id THEN set(d.rows[i])
                             ELSE d.rows[i]]]]

\* the DELETE as it would be if it removed the row from the query result
\* only: the row stays in the table
SqlDelete_Soft(d, id) == d

\* DELETE FROM ideas WHERE id = ?
SqlDelete(d, id) ==
    [d EXCEPT !.rows = SelectSeq(d.rows, LAMBDA r : r.id # id)]

\* ALTER TABLE ideas ADD COLUMN tags TEXT DEFAULT '[]'
SqlAddTagsColumn(d) ==
    [d EXCEPT !.cols = Append(d.cols, "tags"),
              !.rows = [i \in DOMAIN d.rows |->
                           [c \in DOMAIN d.rows[i] \cup {"tags"} |->
                               IF c = "tags" THEN ColumnDefault("tags")
                               ELSE d.rows[i][c]]]]

(***************************************************************************)
(* The database image: db.export() and new SQL.Database(bytes).  The image *)
(* is a byte sequence: the column count, one code per column, the row      *)
(* count, then every field of every row as a length-prefixed text (255 for *)
(* NULL).                                                                  *)
(***************************************************************************)
NullByte == 255

ColumnCode(c) == CHOOSE i \in DOMAIN SchemaColumns : SchemaColumns[i] = c

FieldBytes(v) == IF v = Null THEN <<NullByte>> ELSE <<Len(v)>> \o v

RowBytes(cols, row) == Flatten([i \in DOMAIN cols |-> FieldBytes(row[cols[i]])])

DbExport(d) ==
    <<Len(d.cols)>>
    \o [i \in DOMAIN d.cols |-> ColumnCode(d.cols[i])]
    \o <<Len(d.rows)>>
    \o Flatten([i \in DOMAIN d.rows |-> RowBytes(d.cols, d.rows[i])])

\* reads k fields of the image b from position pos; [ok |-> FALSE] when the
\* image ends before the fields do
RECURSIVE ReadFields(_, _, _)
ReadFields(b, pos, k) ==
    IF k = 0 THEN [ok |-> pos = Len(b) + 1, vals |-> <<>>]
    ELSE IF pos > Len(b) THEN [ok |-> FALSE, vals |-> <<>>]
    ELSE IF b[pos] = NullByte
         THEN LET rest == ReadFields(b, pos + 1, k - 1)
              IN  [ok |-> rest.ok, vals |-> <<Null>> \o rest.vals]
    ELSE IF pos + b[pos] > Len(b) THEN [ok |-> FALSE, vals |-> <<>>]
    ELSE LET rest == ReadFields(b, pos + 1 + b[pos], k - 1)
         IN  [ok |-> rest.ok,
              vals |-> <<SubSeq(b, pos + 1, pos + b[pos])>> \o rest.vals]

\* a database without the ideas table: every statement on ideas throws
NoTable == [open |-> TRUE, cols |-> <<>>, rows |-> <<>>]

ImageHeaderValid(b) ==
    /\ Len(b) >= 2
    /\ b[1] \in 1..Len(SchemaColumns)
    /\ Len(b) >= b[1] + 2
    /\ \A i \in 1..b[1] : b[1 + i] \in DOMAIN SchemaColumns

DbImport(b) ==
    IF ~ ImageHeaderValid(b) THEN NoTable
    ELSE LET ncols == b[1]
             cols == [i \in 1..ncols |-> SchemaColumns[b[1 + i]]]
             nrows == b[ncols + 2]
             fields == ReadFields(b, ncols + 3, nrows * ncols)
         IN  IF ~ fields.ok THEN NoTable
             ELSE [open |-> TRUE,
                   cols |-> cols,
                   rows |-> [r \in 1..nrows |->
                                [c \in Range(cols) |->
                                    fields.vals[(r - 1) * ncols
                                        + (CHOOSE i \in 1..ncols : cols[i] = c)]]]]

(***************************************************************************)
(* The persistence medium: localStorage[DB_NAME], Null when the key is     *)
(* absent.  setItem may be rejected (QuotaExceededError); writeOk is the   *)
(* medium's answer to the write of one call.                               *)
(***************************************************************************)
\* what save() writes: the base64 text of the exported image
Encoding(d) == uint8ArrayToBase64(DbExport(d))

\* save() as it would be if it ran before the statement: it stores the
\* encoding of the database as it was when the call began
save_BeforeStatement(d, writeOk) ==
    /\ slot' = IF writeOk THEN Encoding(db) ELSE slot
    /\ rejected' = IF writeOk THEN rejected ELSE rejected + 1

\* save() as it would be if it kept the stored ideas that database d does
\* not hold
save_Merging(d, writeOk) ==
    LET stored == DbImport(base64ToUint8Array(slot))
        kept == SelectSeq(stored.rows,
                          LAMBDA r : \A i \in DOMAIN d.rows : d.rows[i].id # r.id)
    IN  /\ slot' = IF writeOk
                   THEN Encoding([d EXCEPT !.rows = d.rows \o kept])
                   ELSE slot
        /\ rejected' = IF writeOk THEN rejected ELSE rejected + 1

\* save() of database d: setItem stores the encoding, or throws and leaves
\* the slot as it was (save logs the error and rethrows it)
save(d, writeOk) ==
    /\ slot' = IF writeOk THEN Encoding(d) ELSE slot
    /\ rejected' = IF writeOk THEN rejected ELSE rejected + 1

\* new this.SQL.Database(this.base64ToUint8Array(savedDb))
Load(savedDb) == DbImport(base64ToUint8Array(savedDb))

\* runMigrations(): the database after it, and whether it calls save()
MigrationNeeded(d) == d.cols # <<>> /\ "tags" \notin Range(d.cols)
runMigrations(d) == IF MigrationNeeded(d) THEN SqlAddTagsColumn(d) ELSE d

\* `if (savedDb)`: null and the empty string are falsy
Truthy(text) == text # Null /\ text # <<>>

(***************************************************************************)
(* Reads.                                                                  *)
(***************************************************************************)
\* stmt.getAsObject() followed by the tags parsing of getIdea/getAllIdeas
ReadRow(row) ==
    LET stored == IF "tags" \in DOMAIN row THEN row.tags ELSE Null
        parsed == JSONparse(stored)
        tags == IF Truthy(stored) /\ parsed.ok THEN parsed.value ELSE <<>>
    IN  [c \in DOMAIN row \cup {"tags"} |-> IF c = "tags" THEN tags ELSE row[c]]

\* the `null` getIdea returns when no row matches
NoIdea == [c \in {} |-> Null]

\* getIdea as it would be if its statement had no WHERE clause
getIdea_NoWhere(d, id) ==
    IF d.rows # <<>> THEN ReadRow(d.rows[1]) ELSE NoIdea

getIdea(d, id) ==
    IF \E i \in DOMAIN d.rows : d.rows[i].id = id
    THEN ReadRow(d.rows[CHOOSE i \in DOMAIN d.rows : d.rows[i].id = id])
    ELSE NoIdea

\* every record of the collection as the reads report it, in rowid order
Collection(d) == [i \in DOMAIN d.rows |-> ReadRow(d.rows[i])]

HasIdea(d, id) == \E i \in DOMAIN d.rows : d.rows[i].id = id

\* the placing as it would be if a row went ahead of the rows whose
\* updated_at is equal
RECURSIVE InsertByUpdatedAt_AheadOfEqual(_, _)
InsertByUpdatedAt_AheadOfEqual(listing, row) ==
    IF listing = <<>> THEN <<row>>
    ELSE IF TextLeq(Head(listing).updated_at, row.updated_at)
         THEN <<row>> \o listing
         ELSE <<Head(listing)>>
              \o InsertByUpdatedAt_AheadOfEqual(Tail(listing), row)

\* places row in a listing ordered by updated_at descending, behind the
\* rows whose updated_at is equal
RECURSIVE InsertByUpdatedAt(_, _)
InsertByUpdatedAt(listing, row) ==
    IF listing = <<>> THEN <<row>>
    ELSE IF TextLess(Head(listing).updated_at, row.updated_at)
         THEN <<row>> \o listing
         ELSE <<Head(listing)>> \o InsertByUpdatedAt(Tail(listing), row)

\* the ordering as it would be for ORDER BY created_at DESC
RECURSIVE OrderByUpdatedAtDesc_CreatedAt(_)
OrderByUpdatedAtDesc_CreatedAt(rows) ==
    IF rows = <<>> THEN <<>>
    ELSE LET rest == OrderByUpdatedAtDesc_CreatedAt(Tail(rows))
             later == SelectSeq(rest, LAMBDA r :
                          TextLess(Head(rows).created_at, r.created_at))
             others == SelectSeq(rest, LAMBDA r :
                          ~ TextLess(Head(rows).created_at, r.created_at))
         IN  later \o <<Head(rows)>> \o others

\* ORDER BY updated_at DESC, answered by a scan of the index idx_updated_at
\* ON ideas(updated_at DESC): an index entry is the key followed by the
\* rowid, so rows with an equal updated_at come in rowid order
RECURSIVE OrderByUpdatedAtDesc(_)
OrderByUpdatedAtDesc(rows) ==
    IF rows = <<>> THEN <<>>
    ELSE InsertByUpdatedAt(OrderByUpdatedAtDesc(SubSeq(rows, 1, Len(rows) - 1)),
                           rows[Len(rows)])

\* the fields of an idea as the spec of the export names them
ExportFields == {"id", "title", "body", "tags", "created_at", "updated_at"}

\* getAllIdeas as it would be if it selected the six fields of ExportFields
\* instead of *
getAllIdeas_SixColumns(d) ==
    LET rows == OrderByUpdatedAtDesc(d.rows)
    IN  [i \in DOMAIN rows |->
            [c \in ExportFields |-> ReadRow(rows[i])[c]]]

getAllIdeas(d) ==
    LET rows == OrderByUpdatedAtDesc(d.rows)
    IN  [i \in DOMAIN rows |-> ReadRow(rows[i])]

\* Array.isArray(idea.tags): tags parsed from the text "null" are no array
IsArray(tags) == tags # NullArray

\* Array.prototype.sort() without a comparator: ascending by code units
RECURSIVE Sort(_)
Sort(texts) ==
    IF texts = {} THEN <<>>
    ELSE LET least == CHOOSE s \in texts : \A t \in texts : TextLeq(s, t)
         IN  <<least>> \o Sort(texts \ {least})

\* the tags of the listing in the order tagSet.add first sees them
RECURSIVE FirstSeen(_)
FirstSeen(tags) ==
    IF tags = <<>> THEN <<>>
    ELSE LET before == FirstSeen(SubSeq(tags, 1, Len(tags) - 1))
             last == tags[Len(tags)]
         IN  IF last \in Range(before) THEN before ELSE Append(before, last)

\* getAllTags as it would be without the final sort()
getAllTags_Unsorted(d) ==
    LET ideas == getAllIdeas(d)
    IN  FirstSeen(Flatten([i \in DOMAIN ideas |->
                              IF IsArray(ideas[i].tags) THEN ideas[i].tags
                              ELSE <<>>]))

getAllTags(d) ==
    LET ideas == getAllIdeas(d)
    IN  Sort(Range(FirstSeen(Flatten([i \in DOMAIN ideas |->
                                        IF IsArray(ideas[i].tags)
                                        THEN ideas[i].tags
                                        ELSE <<>>]))))

\* the export as it would be if it read the rows without ORDER BY
exportToJSON_TableOrder(d, now) ==
    [schema_version |-> DB_VERSION,
     exported_at |-> toISOString(now),
     ideas |-> Collection(d)]

exportToJSON(d, now) ==
    [schema_version |-> DB_VERSION,
     exported_at |-> toISOString(now),
     ideas |-> getAllIdeas(d)]

(***************************************************************************)
(* Inputs.                                                                 *)
(***************************************************************************)
\* the values generateUUID() can return
Ids == {<<120>>, <<121>>}

\* the ids of the listing scenario: A, B and C
Id_A == <<120>>
Id_B == <<121>>
Id_C == <<122>>
ListingIds == {Id_A, Id_B, Id_C}

Times == FirstInstant..(FirstInstant + MaxTime)

\* argument record of a call; keys is the key set of updateIdea's `updates`
NoArgs ==
    [keys |-> {}, id |-> Null, created_at |-> Null,
     title |-> Null, body |-> Null, tags |-> NullArray]

CreateArgs(title, body, tags) ==
    [NoArgs EXCEPT !.keys = {"title", "body", "tags"},
                   !.title = title, !.body = body, !.tags = tags]

ValidCreate == CreateArgs(Text_a, Text_b, <<Text_t, Text_u>>)

CreateInputs == {ValidCreate}

\* updates that name id and created_at beside a mutable field
UpdateWithIdentity ==
    [NoArgs EXCEPT !.keys = {"id", "created_at", "body"},
                   !.id = <<119>>, !.created_at = toISOString(FirstInstant + MaxTime + 1),
                   !.body = Text_d]

UpdateInputs ==
    { [NoArgs EXCEPT !.keys = {"title", "body"},
                     !.title = Text_c, !.body = Text_d],
      [NoArgs EXCEPT !.keys = {"tags"}, !.tags = <<Text_u, Text_t>>],
      NoArgs }

TitleUpdate == [NoArgs EXCEPT !.keys = {"title"}, !.title = Text_c]

\* calls with a title or a body that is empty after trimming
BlankCreateInputs ==
    { CreateArgs(EmptyText, Text_b, <<>>),
      CreateArgs(Text_a, Blank, <<Text_t>>) }

BlankUpdateInputs ==
    { [NoArgs EXCEPT !.keys = {"title", "body", "tags"},
                     !.title = EmptyText, !.body = Text_d, !.tags = <<Text_u>>],
      [NoArgs EXCEPT !.keys = {"body"}, !.body = Blank] }

\* calls with the tags "b","a" and "a","c", and an update to tags with a
\* capital letter
TagCreateInputs ==
    { CreateArgs(Text_a, Text_b, <<Text_b, Text_a>>),
      CreateArgs(Text_a, Text_b, <<Text_a, Text_c>>) }

TagUpdateInputs ==
    { [NoArgs EXCEPT !.keys = {"tags"}, !.tags = <<Text_c, Text_UpperB>>] }

\* calls whose tags argument holds a duplicate or an empty string, or is
\* null
TagArgCreateInputs ==
    { CreateArgs(Text_a, Text_b, <<Text_t, Text_u, Text_t>>),
      CreateArgs(Text_a, Text_b, NullArray) }

TagArgUpdateInputs ==
    { [NoArgs EXCEPT !.keys = {"tags"}, !.tags = <<EmptyText, Text_u, Text_u>>],
      [NoArgs EXCEPT !.keys = {"tags"}, !.tags = NullArray] }

\* a database image written by the revision of db.js without the tags column
OldImage ==
    [open |-> TRUE, cols |-> OldSchemaColumns,
     rows |-> << [c \in Range(OldSchemaColumns) |->
                     CASE c = "id" -> <<120>>
                       [] c = "title" -> Text_a
                       [] c = "body" -> Text_b
                       [] c = "created_at" -> toISOString(FirstInstant - 1)
                       [] c = "updated_at" -> toISOString(FirstInstant - 1)
                       [] OTHER -> ColumnDefault(c)] >>]

InitialSlots == {Null, Encoding(OldImage)}

\* values under the key that are not the encoding of a database with the
\* ideas table: a text that is not base64, the base64 text of bytes that are
\* not a database image, and the encoding of a database without the table
NotBase64 == <<33>>
NotAnImage == uint8ArrayToBase64(<<83, 81, 76>>)
WithoutTable == Encoding(NoTable)
CorruptSlots == {NotBase64, NotAnImage, WithoutTable}

(***************************************************************************)
(* The state machine.  call records the last store call: its name, its     *)
(* arguments, whether it returned or threw, what it returned and what      *)
(* happened to the localStorage write it made.                             *)
(***************************************************************************)
Call(op, id, args, outcome, ret, wrote) ==
    [op |-> op, id |-> id, args |-> args, outcome |-> outcome,
     ret |-> ret, wrote |-> wrote]

\* the values a call returns: `true`, or the new id; Null when it threw
True == <<1>>

MayReject == rejected < MaxWriteFailures

\* the outcome if save() logged the error without rethrowing it
Outcome_Swallowed(writeOk) == "returned"

\* how a call that reached save() ends: save rethrows the error of a
\* rejected write and no caller in the store catches it
Outcome(writeOk) == IF writeOk THEN "returned" ELSE "threw"

Returned(value, writeOk) == IF writeOk THEN value ELSE Null

Wrote(writeOk) == IF writeOk THEN "ok" ELSE "rejected"

\* a second tab that has not loaded the page: its store instance
NoTab == [db |-> NoDatabase, ready |-> FALSE]

\* where the keyboard focus is: on the tags input, on the suggestion element
\* with the given data-index, or outside the tag widget
Outside == [on |-> "outside", index |-> -1]
OnInput == [on |-> "input", index |-> -1]
OnSuggestion(i) == [on |-> "suggestion", index |-> i]

\* the last event the form handled, with the text it passed to addTag and,
\* for a submit, the values of the title and body fields
Event(type, tag) == [type |-> type, tag |-> tag, title |-> Null, body |-> Null]

\* new IdeaApp() over the page as it is served: the loading view is shown,
\* the hidden id field and the tags input are empty, the dropdown has no
\* suggestion element and is not displayed, no timer is pending.  timers is the set of pending setTimeout
\* ids, blurTimeoutId is 0 for null; stale is a history field: the pending
\* timers that were scheduled before the last focus event in the widget.
NewApp ==
    [view |-> "loading-view",
     idField |-> EmptyText,
     tagsInput |-> EmptyText,
     currentTags |-> <<>>,
     items |-> <<>>,
     shown |-> FALSE,
     selectedSuggestionIndex |-> -1,
     blurTimeoutId |-> 0,
     timers |-> {},
     stale |-> {},
     focus |-> Outside,
     event |-> Event("new", Null)]

Init ==
    /\ db = NoDatabase
    /\ slot \in InitialSlots
    /\ clock = FirstInstant
    /\ ready = FALSE
    /\ rejected = 0
    /\ call = Call("new", Null, NoArgs, "returned", Null, "none")
    /\ issued = {}
    /\ other = NoTab
    /\ ui = NewApp

\* a page load: new IdeaDatabase() and init()
init(writeOk) ==
    /\ writeOk \/ MayReject
    /\ IF Truthy(slot) /\ ~ IsBase64(slot)
       THEN \* atob throws; init logs the error and rethrows it
            /\ writeOk
            /\ call' = Call("init", Null, NoArgs, "threw", Null, "none")
            /\ UNCHANGED <<db, slot, ready, rejected>>
       ELSE IF Truthy(slot)
       THEN \E loaded \in {Load(slot)} :
                /\ db' = runMigrations(loaded)
                /\ ready' = TRUE
                /\ IF MigrationNeeded(loaded)
                   THEN \* the error of a rejected write is caught and logged
                        /\ save(db', writeOk)
                        /\ call' = Call("init", Null, NoArgs, "returned",
                                        True, Wrote(writeOk))
                   ELSE /\ writeOk
                        /\ call' = Call("init", Null, NoArgs, "returned",
                                        True, "none")
                        /\ UNCHANGED <<slot, rejected>>
       ELSE /\ db' = createSchema
            /\ save(db', writeOk)
            /\ ready' = writeOk
            /\ call' = Call("init", Null, NoArgs, Outcome(writeOk),
                            Returned(True, writeOk), Wrote(writeOk))
    /\ UNCHANGED clock

createIdea(id, args, writeOk) ==
    /\ ready
    /\ writeOk \/ MayReject
    /\ LET now == toISOString(clock)
           tagsJson == JSONstringify(args.tags)
       IN  \E ins \in {SqlInsert(db, id, args.title, args.body, tagsJson, now)} :
               IF ~ ins.ok
               THEN \* stmt.step() throws on the constraint violation; no
                    \* write is made, so the medium's answer plays no part
                    /\ writeOk
                    /\ call' = Call("createIdea", id, args, "threw", Null, "none")
                    /\ UNCHANGED <<db, slot, rejected>>
               ELSE /\ db' = ins.db
                    /\ save(db', writeOk)
                    /\ call' = Call("createIdea", id, args, Outcome(writeOk),
                                    Returned(id, writeOk), Wrote(writeOk))
    /\ UNCHANGED <<clock, ready>>

\* the assigned columns if no key of `updates` were skipped
UpdateColumns_All(updates) == updates.keys \cup {"updated_at"}

\* the assigned columns if a change of the tags alone did not refresh
\* updated_at
UpdateColumns_TagsKeepTimestamp(updates) ==
    (updates.keys \ {"id", "created_at"})
        \cup (IF updates.keys = {"tags"} THEN {} ELSE {"updated_at"})

\* the columns updateIdea assigns: every key of `updates` but id and
\* created_at, and always updated_at
UpdateColumns(updates) ==
    (updates.keys \ {"id", "created_at"}) \cup {"updated_at"}

updateIdea(id, updates, writeOk) ==
    /\ ready
    /\ writeOk \/ MayReject
    /\ LET now == toISOString(clock)
           assign == [c \in UpdateColumns(updates) |->
                         IF c = "updated_at" THEN now
                         ELSE IF c = "tags" THEN JSONstringify(updates.tags)
                         ELSE updates[c]]
       IN  \E upd \in {SqlUpdate(db, id, assign)} :
               IF ~ upd.ok
               THEN \* prepare() or step() throws
                    /\ writeOk
                    /\ call' = Call("updateIdea", id, updates, "threw", Null,
                                    "none")
                    /\ UNCHANGED <<db, slot, rejected>>
               ELSE /\ db' = upd.db
                    /\ save(db', writeOk)
                    /\ call' = Call("updateIdea", id, updates, Outcome(writeOk),
                                    Returned(True, writeOk), Wrote(writeOk))
    /\ UNCHANGED <<clock, ready>>

deleteIdea(id, writeOk) ==
    /\ ready
    /\ writeOk \/ MayReject
    /\ IF db = NoTable
       THEN \* prepare() throws: there is no table ideas
            /\ writeOk
            /\ call' = Call("deleteIdea", id, NoArgs, "threw", Null, "none")
            /\ UNCHANGED <<db, slot, rejected>>
       ELSE /\ db' = SqlDelete(db, id)
            /\ save(db', writeOk)
            /\ call' = Call("deleteIdea", id, NoArgs, Outcome(writeOk),
                            Returned(True, writeOk), Wrote(writeOk))
    /\ UNCHANGED <<clock, ready>>

\* a read as it would be if it ended with save()
Read_Saving(op, id, ret) ==
    /\ ready
    /\ save(db, TRUE)
    /\ call' = Call(op, id, NoArgs, "returned", ret, "ok")
    /\ UNCHANGED <<db, clock, ready>>

\* the reads: each returns what it computes from this.db and changes
\* nothing
Read(op, id, ret) ==
    /\ ready
    /\ call' = IF db = NoTable
               THEN \* prepare() throws: there is no table ideas
                    Call(op, id, NoArgs, "threw", Null, "none")
               ELSE Call(op, id, NoArgs, "returned", ret, "none")
    /\ UNCHANGED <<db, slot, clock, ready, rejected>>

GetIdea(id) == Read("getIdea", id, getIdea(db, id))

GetAllIdeas == Read("getAllIdeas", Null, getAllIdeas(db))

GetAllTags == Read("getAllTags", Null, getAllTags(db))

ExportToJSON == Read("exportToJSON", Null, exportToJSON(db, clock))

\* time passes between two calls, up to the instant `last`
TickTo(last) ==
    /\ clock < last
    /\ clock' = clock + 1
    /\ UNCHANGED <<db, slot, ready, rejected, call>>

Tick == TickTo(FirstInstant + MaxTime)

\* issued is a history variable: the ids that createIdea has returned since
\* the last init().  Only the specification SpecIds keeps it; under the
\* others it stays empty.
NoHistory == UNCHANGED issued

\* other is the store instance of a second tab and ui the state of the form
\* (class IdeaApp); a step of one store in one tab leaves both alone
Alone == UNCHANGED <<other, ui>>

\* the user turns to the other tab: its page, with its own IdeaDatabase
\* instance over the same localStorage slot, makes the next calls
SwitchTab ==
    /\ db' = other.db
    /\ ready' = other.ready
    /\ other' = [db |-> db, ready |-> ready]
    /\ call' = Call("switchTab", Null, NoArgs, "returned", Null, "none")
    /\ UNCHANGED <<slot, clock, rejected, issued, ui>>

\* the next-state relation over given input sets
NextOver(creates, updates, answers) ==
    \/ \E writeOk \in answers : init(writeOk) /\ NoHistory /\ Alone
    \/ \E id \in Ids, args \in creates, writeOk \in answers :
           createIdea(id, args, writeOk) /\ NoHistory /\ Alone
    \/ \E id \in Ids, upd \in updates, writeOk \in answers :
           updateIdea(id, upd, writeOk) /\ NoHistory /\ Alone
    \/ \E id \in Ids, writeOk \in answers :
           deleteIdea(id, writeOk) /\ NoHistory /\ Alone
    \/ Tick /\ NoHistory /\ Alone

Next == NextOver(CreateInputs, UpdateInputs, {TRUE})

NextQuota == NextOver(CreateInputs, {NoArgs, TitleUpdate}, BOOLEAN)

NextBlank == NextOver(BlankCreateInputs, BlankUpdateInputs, {TRUE})

NextIdentity == NextOver(CreateInputs, {UpdateWithIdentity}, {TRUE})

\* the calls of one page with the history of the ids createIdea returned;
\* a page load starts a new store lifetime
NextIds ==
    \/ \E writeOk \in BOOLEAN : init(writeOk) /\ issued' = {} /\ Alone
    \/ \E id \in Ids, args \in CreateInputs, writeOk \in BOOLEAN :
           /\ createIdea(id, args, writeOk)
           /\ issued' = IF call'.outcome = "returned" THEN issued \cup {id}
                         ELSE issued
           /\ Alone
    \/ \E id \in Ids, writeOk \in BOOLEAN :
           updateIdea(id, NoArgs, writeOk) /\ NoHistory /\ Alone
    \/ \E id \in Ids, writeOk \in BOOLEAN :
           deleteIdea(id, writeOk) /\ NoHistory /\ Alone
    \/ Tick /\ NoHistory /\ Alone

\* the mutating calls together with the reads
NextReadOver(creates, updates) ==
    \/ NextOver(creates, updates, {TRUE})
    \/ \E id \in Ids : GetIdea(id) /\ NoHistory /\ Alone
    \/ GetAllIdeas /\ NoHistory /\ Alone
    \/ GetAllTags /\ NoHistory /\ Alone
    \/ ExportToJSON /\ NoHistory /\ Alone

NextRead == NextReadOver(CreateInputs, {TitleUpdate})

\* three ideas and four instants: creations, updates and listings
NextListing ==
    \/ init(TRUE) /\ NoHistory /\ Alone
    \/ \E id \in ListingIds : createIdea(id, ValidCreate, TRUE) /\ NoHistory /\ Alone
    \/ \E id \in ListingIds : updateIdea(id, NoArgs, TRUE) /\ NoHistory /\ Alone
    \/ GetAllIdeas /\ NoHistory /\ Alone
    \/ TickTo(FirstInstant + MaxListingTime) /\ NoHistory /\ Alone

Spec == Init /\ [][Next]_vars

\* a first visit: nothing is stored under the key
InitEmpty == Init /\ slot = Null

SpecListing == InitEmpty /\ [][NextListing]_vars

SpecRead == Init /\ [][NextRead]_vars

\* a page load that may find a corrupt value under the key
InitAnySlot ==
    \E s \in InitialSlots \cup CorruptSlots :
        Init!1 /\ slot = s /\ Init!3 /\ Init!4 /\ Init!5 /\ Init!6
            /\ Init!7 /\ Init!8 /\ Init!9

SpecCorrupt == InitAnySlot /\ [][NextRead]_vars

NextTags == NextReadOver(TagCreateInputs, TagUpdateInputs)

SpecTags == Init /\ [][NextTags]_vars

\* two tabs over one slot
NextTabs ==
    \/ init(TRUE) /\ NoHistory /\ Alone
    \/ \E id \in Ids : createIdea(id, ValidCreate, TRUE) /\ NoHistory /\ Alone
    \/ \E id \in Ids : updateIdea(id, TitleUpdate, TRUE) /\ NoHistory /\ Alone
    \/ \E id \in Ids : deleteIdea(id, TRUE) /\ NoHistory /\ Alone
    \/ SwitchTab

SpecTabs == Init /\ [][NextTabs]_vars

NextTagArgs == NextReadOver(TagArgCreateInputs, TagArgUpdateInputs)

SpecTagArgs == Init /\ [][NextTagArgs]_vars

SpecIds == Init /\ [][NextIds]_vars

SpecQuota == Init /\ [][NextQuota]_vars

SpecBlank == Init /\ [][NextBlank]_vars

SpecIdentity == Init /\ [][NextIdentity]_vars

(***************************************************************************)
(* The form of class IdeaApp: the tag widget (tags input, suggestion       *)
(* dropdown, blur timer) and the submit handler.  Operators on the record  *)
(* u are the methods of IdeaApp; items is the list of .tag-suggestion      *)
(* elements in the dropdown and shown its display state.                   *)
(***************************************************************************)
\* number of tags the user enters in one form
MaxTags == 2

\* String.prototype.toLowerCase
ToLowerCase(text) ==
    [i \in DOMAIN text |->
        IF text[i] >= 65 /\ text[i] <= 90 THEN text[i] + 32 ELSE text[i]]

\* String.prototype.includes
Includes(text, part) ==
    \E i \in 1..(Len(text) - Len(part) + 1) :
        SubSeq(text, i, i + Len(part) - 1) = part

\* addTag(tag): the new value of this.currentTags
addTag(tags, tag) ==
    LET trimmedTag == Trim(tag)
    IN  IF trimmedTag = EmptyText THEN tags
        ELSE IF trimmedTag \in Range(tags) THEN tags
        ELSE Append(tags, trimmedTag)

\* cancelBlurTimeout as it would be if it forgot the id without clearing
\* the timer
cancelBlurTimeout_Forgetting(u) == [u EXCEPT !.blurTimeoutId = 0]

\* clearTimeout of an id that is not pending does nothing
cancelBlurTimeout(u) ==
    IF u.blurTimeoutId # 0
    THEN [u EXCEPT !.timers = @ \ {u.blurTimeoutId},
                   !.stale = @ \ {u.blurTimeoutId},
                   !.blurTimeoutId = 0]
    ELSE u

\* the id setTimeout returns: one that no pending timer has
TimerId(timers) ==
    CHOOSE i \in 1..(Cardinality(timers) + 1) :
        i \notin timers /\ \A j \in 1..(i - 1) : j \in timers

\* this.blurTimeoutId = setTimeout(...): a timer already pending is left
\* pending
setBlurTimeout(u) ==
    [u EXCEPT !.timers = @ \cup {TimerId(u.timers)},
              !.blurTimeoutId = TimerId(u.timers)]

hideTagSuggestions(u) ==
    [cancelBlurTimeout(u) EXCEPT !.shown = FALSE,
                                 !.selectedSuggestionIndex = -1]

\* with nothing to suggest the dropdown is hidden, its elements and the
\* selection stay as they are
showTagSuggestions(u, d, filter) ==
    LET suggestions ==
            SelectSeq(getAllTags(d),
                      LAMBDA tag : /\ tag \notin Range(u.currentTags)
                                   /\ Includes(ToLowerCase(tag),
                                               ToLowerCase(filter)))
    IN  IF suggestions = <<>> THEN [u EXCEPT !.shown = FALSE]
        ELSE [u EXCEPT !.items = suggestions,
                       !.shown = TRUE,
                       !.selectedSuggestionIndex = -1]

\* the element is the tags input or a suggestion
IsWidget(target) == target.on \in {"input", "suggestion"}

\* the blur listener of the element that has the focus
blurHandler(u, relatedTarget) ==
    IF u.focus.on = "input" THEN setBlurTimeout(u)
    ELSE IF u.focus.on = "suggestion" /\ ~ IsWidget(relatedTarget)
    THEN setBlurTimeout(u)
    ELSE u

\* the focus listener of the element that gets the focus
focusHandler(u, d, target) ==
    IF target.on = "input"
    THEN showTagSuggestions(cancelBlurTimeout(u), d, EmptyText)
    ELSE IF target.on = "suggestion"
    THEN [cancelBlurTimeout(u) EXCEPT !.selectedSuggestionIndex = target.index]
    ELSE u

\* the focus moves to target: blur on the element that had it, then focus
\* on target; the timers still pending after a focus event in the widget
\* were scheduled before it
FocusTo(u, d, target) ==
    IF u.focus = target THEN u
    ELSE LET blurred == [blurHandler(u, target) EXCEPT !.focus = target]
             focused == focusHandler(blurred, d, target)
         IN  [focused EXCEPT !.stale = IF IsWidget(target) THEN focused.timers
                                       ELSE focused.stale]

\* the form is hidden: the element that had the focus loses it, and the
\* browser may or may not send it a blur event
LeaveForm(u, blurSent) ==
    IF u.focus = Outside THEN u
    ELSE [(IF blurSent THEN blurHandler(u, Outside) ELSE u)
             EXCEPT !.focus = Outside]

Keys == {"Enter", "Escape", "ArrowDown", "ArrowUp"}

Min(a, b) == IF a < b THEN a ELSE b
Max(a, b) == IF a > b THEN a ELSE b

\* the text the Enter key passes to addTag: the selected suggestion if
\* there is such an element in the dropdown, else the typed text
TagToAdd(u) ==
    IF /\ u.selectedSuggestionIndex >= 0
       /\ u.selectedSuggestionIndex < Len(u.items)
    THEN u.items[u.selectedSuggestionIndex + 1]
    ELSE Trim(u.tagsInput)

handleTagInputKeydown(u, key) ==
    IF key = "Enter"
    THEN [hideTagSuggestions(
              [u EXCEPT !.currentTags = addTag(@, TagToAdd(u)),
                        !.tagsInput = EmptyText])
             EXCEPT !.event = Event("Enter", TagToAdd(u))]
    ELSE IF key = "Escape"
    THEN [hideTagSuggestions(u) EXCEPT !.event = Event("Escape", Null)]
    ELSE IF key = "ArrowDown"
    THEN [u EXCEPT !.selectedSuggestionIndex =
                       IF Len(u.items) > 0
                       THEN Min(@ + 1, Len(u.items) - 1) ELSE @,
                   !.event = Event("ArrowDown", Null)]
    ELSE [u EXCEPT !.selectedSuggestionIndex =
                       IF Len(u.items) > 0 THEN Max(@ - 1, 0) ELSE @,
                   !.event = Event("ArrowUp", Null)]

\* the texts the user types into the tags input
InputTexts == {EmptyText, Text_b, Text_d}

\* a database image with the tags "t", "u" and "B"
TaggedImage ==
    [open |-> TRUE, cols |-> SchemaColumns,
     rows |-> << [c \in Range(SchemaColumns) |->
                     CASE c = "id" -> Id_A
                       [] c = "title" -> Text_a
                       [] c = "body" -> Text_b
                       [] c = "tags" -> JSONstringify(<<Text_t, Text_u>>)
                       [] c = "created_at" -> toISOString(FirstInstant - 1)
                       [] c = "updated_at" -> toISOString(FirstInstant - 1)
                       [] OTHER -> ColumnDefault(c)],
                 [c \in Range(SchemaColumns) |->
                     CASE c = "id" -> Id_B
                       [] c = "title" -> Text_c
                       [] c = "body" -> Text_d
                       [] c = "tags" -> JSONstringify(<<Text_UpperB>>)
                       [] c = "created_at" -> toISOString(FirstInstant - 1)
                       [] c = "updated_at" -> toISOString(FirstInstant - 1)
                       [] OTHER -> ColumnDefault(c)] >>]

\* the store and the page beside the form do not change
FormOnly == UNCHANGED <<db, slot, clock, ready, rejected, call, issued, other>>

\* a page load: app.init() awaits db.init(), installs the listeners and
\* routes to the list
PageLoad ==
    /\ init(TRUE)
    /\ ui' = [NewApp EXCEPT !.view = "list-view"]
    /\ UNCHANGED <<issued, other>>

\* showFormView(id): route #/create (id is Null) or #/edit/{id}
ShowFormView(id) ==
    /\ ready
    /\ LET reset == [ui EXCEPT !.tagsInput = EmptyText, !.currentTags = <<>>]
           idea == getIdea(db, id)
       IN  ui' = IF id # Null /\ idea = NoIdea
                  THEN [reset EXCEPT !.view = "error-view",
                                     !.event = Event("showFormView", Null)]
                  ELSE [FocusTo(reset, db, Outside)
                           EXCEPT !.view = "form-view",
                                  !.idField = IF id = Null THEN EmptyText ELSE id,
                                  !.currentTags =
                                      IF id = Null \/ ~ IsArray(idea.tags)
                                      THEN <<>> ELSE idea.tags,
                                  !.event = Event("showFormView", Null)]
    /\ FormOnly

\* the user or the screen reader moves the focus
MoveFocus(target) ==
    /\ ready
    /\ ui.view = "form-view"
    /\ target # ui.focus
    /\ target.on = "suggestion"
           => ui.shown /\ target.index \in 0..(Len(ui.items) - 1)
    /\ ui' = [FocusTo(ui, db, target) EXCEPT !.event = Event("focus", Null)]
    /\ FormOnly

\* the callback of a pending timer runs
TimerFires ==
    /\ \E id \in ui.timers :
           ui' = [hideTagSuggestions([ui EXCEPT !.timers = @ \ {id},
                                               !.stale = @ \ {id}])
                     EXCEPT !.blurTimeoutId = 0,
                            !.event = Event("timer", Null)]
    /\ FormOnly

\* the input event of the tags input: handleTagInputChange
Input(text) ==
    /\ ready
    /\ ui.view = "form-view"
    /\ ui.focus = OnInput
    /\ text # ui.tagsInput
    /\ ui' = [showTagSuggestions([ui EXCEPT !.tagsInput = text], db, Trim(text))
                 EXCEPT !.event = Event("input", Null)]
    /\ FormOnly

\* a key pressed in the tags input
Keydown(key) ==
    /\ ready
    /\ ui.view = "form-view"
    /\ ui.focus = OnInput
    /\ key = "Enter" => Len(ui.currentTags) < MaxTags
    /\ ui' = handleTagInputKeydown(ui, key)
    /\ FormOnly

\* click or touchend on the suggestion with data-index i: selectSuggestion
SelectSuggestion(i) ==
    /\ ready
    /\ ui.view = "form-view"
    /\ ui.shown
    /\ i \in 0..(Len(ui.items) - 1)
    /\ Len(ui.currentTags) < MaxTags
    /\ ui' = [FocusTo(hideTagSuggestions(
                          [ui EXCEPT !.currentTags = addTag(@, ui.items[i + 1]),
                                     !.tagsInput = EmptyText]),
                      db, OnInput)
                 EXCEPT !.event = Event("click", ui.items[i + 1])]
    /\ FormOnly

\* click on the remove button of a tag: removeTag
RemoveTag(tag) ==
    /\ ready
    /\ ui.view = "form-view"
    /\ tag \in Range(ui.currentTags)
    /\ ui' = [FocusTo([ui EXCEPT !.currentTags =
                                     SelectSeq(@, LAMBDA t : t # tag)],
                      db, OnInput)
                 EXCEPT !.event = Event("remove", tag)]
    /\ FormOnly

\* the value of a form field as handleFormSubmit would take it without
\* trim()
FormValue_Untrimmed(raw) == raw

\* document.getElementById(...).value.trim()
FormValue(raw) == Trim(raw)

SubmitEvent(title, body) ==
    [Event("submit", Null) EXCEPT !.title = title, !.body = body]

\* the arguments of db.updateIdea(id, { title, body, tags: this.currentTags })
FormUpdate(title, body, tags) ==
    [NoArgs EXCEPT !.keys = {"title", "body", "tags"},
                   !.title = title, !.body = body, !.tags = tags]

\* the submit event of the form with the given field values; newId is the
\* id generateUUID draws if createIdea is called.  An error of the store
\* is caught and shown; a saved idea is shown in the detail view.
handleFormSubmit(rawTitle, rawBody, newId, writeOk, blurSent) ==
    /\ ready
    /\ ui.view = "form-view"
    /\ LET title == FormValue(rawTitle)
           body == FormValue(rawBody)
       IN  IF title = EmptyText \/ body = EmptyText
           THEN /\ writeOk
                /\ ~ blurSent
                /\ ui' = [ui EXCEPT !.event = SubmitEvent(rawTitle, rawBody)]
                /\ UNCHANGED <<db, slot, clock, ready, rejected, call>>
           ELSE /\ IF ui.idField # EmptyText
                   THEN updateIdea(ui.idField,
                                   FormUpdate(title, body, ui.currentTags),
                                   writeOk)
                   ELSE createIdea(newId,
                                   CreateArgs(title, body, ui.currentTags),
                                   writeOk)
                /\ ui' = [LeaveForm(ui, blurSent)
                             EXCEPT !.view = IF call'.outcome = "returned"
                                             THEN "detail-view"
                                             ELSE "error-view",
                                    !.event = SubmitEvent(rawTitle, rawBody)]
    /\ UNCHANGED <<issued, other>>

\* title and body values of the form: " a ", " " and "b", ""
PaddedA == <<32, 97, 32>>
TitleValues == {PaddedA, Blank}
BodyValues == {Text_b, EmptyText}

\* the form: pages are loaded, ideas are created and edited, tags are typed
NextForm ==
    \/ PageLoad
    \/ \E id \in Ids \cup {Null} : ShowFormView(id)
    \/ \E target \in {Outside, OnInput} : MoveFocus(target)
    \/ TimerFires
    \/ Input(Text_d)
    \/ Keydown("Enter")
    \/ \E rawTitle \in TitleValues, rawBody \in BodyValues, newId \in Ids,
          writeOk \in {TRUE},
          blurSent \in (IF ui.focus = Outside THEN {FALSE} ELSE BOOLEAN) :
           handleFormSubmit(rawTitle, rawBody, newId, writeOk, blurSent)

SpecForm == InitEmpty /\ [][NextForm]_vars

\* the tag widget over a stored collection with tags
InitWidget ==
    /\ Init!1 /\ slot = Encoding(TaggedImage) /\ Init!3 /\ Init!4 /\ Init!5
    /\ Init!6 /\ Init!7 /\ Init!8 /\ Init!9

NextWidget ==
    \/ PageLoad
    \/ ShowFormView(Null)
    \/ \E target \in {Outside, OnInput} \cup {OnSuggestion(i) : i \in 0..2} :
           MoveFocus(target)
    \/ TimerFires
    \/ \E text \in InputTexts : Input(text)
    \/ \E key \in Keys : Keydown(key)
    \/ \E i \in 0..2 : SelectSuggestion(i)
    \/ \E tag \in {Text_t, Text_b} : RemoveTag(tag)

SpecWidget == InitWidget /\ [][NextWidget]_vars

(***************************************************************************)
(* Properties.                                                             *)
(***************************************************************************)
MutatingOps == {"createIdea", "updateIdea", "deleteIdea"}

\* the database a fresh store holds after init() loaded savedDb
Reinit(savedDb) == runMigrations(Load(savedDb))

\* C1: whenever createIdea, updateIdea or deleteIdea has returned normally,
\* the localStorage slot holds the encoding of the whole in-memory database
\* as it is at that moment.
C1_SlotHoldsCollectionOnReturn ==
    (call.op \in MutatingOps /\ call.outcome = "returned")
        => slot = Encoding(db)

\* a delete returned normally on a non-empty collection after a write had
\* been rejected earlier
C1_Witness ==
    /\ call.op = "deleteIdea"
    /\ call.outcome = "returned"
    /\ Len(db.rows) = 1
    /\ rejected = 1

\* C2: after any sequence of calls that ended with a normal return, a fresh
\* store initialized from the slot reads the same collection as the store
\* that wrote it: same records in the same order, same field values, same
\* tag order.
C2_RoundTrip ==
    (ready /\ call.outcome = "returned")
        => Collection(Reinit(slot)) = Collection(db)

\* two records, one of them retitled and one of them with reordered tags
C2_Witness ==
    /\ ready
    /\ call.op = "updateIdea"
    /\ call.outcome = "returned"
    /\ Len(db.rows) = 2
    /\ \E i \in DOMAIN db.rows : db.rows[i].title = Text_c
    /\ \E i \in DOMAIN db.rows : ReadRow(db.rows[i]).tags = <<Text_u, Text_t>>
    /\ \E i \in DOMAIN db.rows : db.rows[i].essence = Null

\* C3: a create, update or delete whose localStorage write was rejected
\* does not return: it ends with the error thrown to its caller.
C3_RejectedWriteSurfaces ==
    (call.op \in MutatingOps /\ call.wrote = "rejected")
        => (call.outcome = "threw" /\ call.ret = Null)

\* an update whose write was rejected
C3_Witness ==
    /\ call.op = "updateIdea"
    /\ call.wrote = "rejected"
    /\ HasIdea(db, call.id)

\* C4: after a create, update or delete whose write was rejected, the
\* in-memory collection equals the collection last persisted.
C4_NoUnsavedChangeVisible ==
    (call.op \in MutatingOps /\ call.wrote = "rejected")
        => Collection(db) = Collection(Reinit(slot))

\* a step that is a call of the store operation op (Tick alone moves the
\* clock, and every call records its own name)
CallStep(op) == clock' = clock /\ call'.op = op

BlankText(text) == Trim(text) = <<>>

\* C5 as stated: createIdea with a title or a body that is empty after
\* trimming fails, inserts no record and writes nothing to localStorage.
C5_BlankCreateRejected ==
    [][ (/\ CallStep("createIdea")
         /\ BlankText(call'.args.title) \/ BlankText(call'.args.body))
        => (/\ call'.outcome = "threw"
            /\ call'.wrote = "none"
            /\ db' = db
            /\ slot' = slot) ]_vars

\* C5 as amended: createIdea does not validate.  Called with a title or a
\* body that is empty after trimming and an id that is not taken, it
\* inserts one record holding exactly the given title and body, writes the
\* new encoding to localStorage and returns the id.
C5_BlankCreateInserts ==
    [][ (/\ CallStep("createIdea")
         /\ BlankText(call'.args.title) \/ BlankText(call'.args.body)
         /\ ~ HasIdea(db, call'.id))
        => (/\ call'.outcome = "returned"
            /\ call'.ret = call'.id
            /\ Len(db'.rows) = Len(db.rows) + 1
            /\ getIdea(db', call'.id).title = call'.args.title
            /\ getIdea(db', call'.id).body = call'.args.body
            /\ call'.wrote = "ok"
            /\ slot' = Encoding(db')) ]_vars

\* a record with an empty title and a record with a blank body are stored
C5_Witness ==
    /\ call.op = "createIdea"
    /\ call.outcome = "returned"
    /\ \E i \in DOMAIN db.rows : db.rows[i].title = EmptyText
    /\ \E i \in DOMAIN db.rows : db.rows[i].body = Blank

\* a step that calls updateIdea or deleteIdea with an id that no record has
AbsentIdStep ==
    /\ clock' = clock
    /\ call'.op \in {"updateIdea", "deleteIdea"}
    /\ ~ HasIdea(db, call'.id)

\* C6 as stated: updateIdea and deleteIdea with an id that is not in the
\* collection return a result other than the `true` of a success and leave
\* the in-memory collection and the slot unchanged.
C6_AbsentIdNotFound ==
    [][ AbsentIdStep
        => (/\ call'.ret # True
            /\ db' = db
            /\ slot' = slot) ]_vars

\* C6 as amended: updateIdea and deleteIdea with an id that is not in the
\* collection leave the in-memory collection unchanged, rewrite the slot
\* with the encoding of that unchanged collection and return `true`, as a
\* successful call does; when the write is rejected they throw and the slot
\* keeps its value.
C6_AbsentIdReturnsTrue ==
    [][ AbsentIdStep
        => (/\ db' = db
            /\ call'.wrote \in {"ok", "rejected"}
            /\ call'.wrote = "ok"
                 => (/\ call'.outcome = "returned"
                     /\ call'.ret = True
                     /\ slot' = Encoding(db))
            /\ call'.wrote = "rejected"
                 => (/\ call'.outcome = "threw"
                     /\ slot' = slot)) ]_vars

\* an update of the title returned true for an id that no record has,
\* while another record is stored
C6_Witness ==
    /\ call.op = "updateIdea"
    /\ "title" \in call.args.keys
    /\ ~ HasIdea(db, call.id)
    /\ call.ret = True
    /\ Len(db.rows) = 1

\* a step that calls updateIdea on a stored record with a title or a body
\* that is supplied and empty after trimming
BlankUpdateStep ==
    /\ CallStep("updateIdea")
    /\ HasIdea(db, call'.id)
    /\ \E k \in call'.args.keys \cap {"title", "body"} :
           BlankText(call'.args[k])

\* C7 as stated: such an update fails and leaves the record unchanged.
C7_BlankUpdateRejected ==
    [][ BlankUpdateStep
        => (/\ call'.outcome = "threw"
            /\ getIdea(db', call'.id) = getIdea(db, call'.id)) ]_vars

\* C7 as amended: updateIdea does not validate.  Such an update returns
\* true and stores every supplied field, the empty one included, and the
\* new updated_at.
C7_BlankUpdateApplied ==
    [][ BlankUpdateStep
        => (/\ call'.outcome = "returned"
            /\ call'.ret = True
            /\ \A k \in call'.args.keys \cap {"title", "body", "tags"} :
                   getIdea(db', call'.id)[k] = call'.args[k]
            /\ getIdea(db', call'.id).updated_at = toISOString(clock)) ]_vars

\* a record whose title was emptied by an update that also set its body
\* and its tags
C7_Witness ==
    /\ call.op = "updateIdea"
    /\ call.outcome = "returned"
    /\ call.args.keys = {"title", "body", "tags"}
    /\ HasIdea(db, call.id)
    /\ getIdea(db, call.id).title = EmptyText
    /\ getIdea(db, call.id).body = Text_d
    /\ getIdea(db, call.id).tags = <<Text_u>>

\* C8: an updateIdea call, also one whose updates name id and created_at,
\* returns normally and leaves the id and the created_at of every record as
\* they were; every id is one generateUUID returned and no created_at lies
\* after the current instant.
C8_IdentityImmutable ==
    [][ /\ CallStep("updateIdea")
          => (/\ call'.outcome = "returned"
              /\ Len(db'.rows) = Len(db.rows)
              /\ \A i \in DOMAIN db.rows :
                     /\ db'.rows[i].id = db.rows[i].id
                     /\ db'.rows[i].created_at = db.rows[i].created_at)
        /\ \A i \in DOMAIN db'.rows :
               /\ db'.rows[i].id \in Ids
               /\ TextLeq(db'.rows[i].created_at, toISOString(clock')) ]_vars

\* an update naming id and created_at was applied to a stored record
C8_Witness ==
    /\ call.op = "updateIdea"
    /\ call.outcome = "returned"
    /\ {"id", "created_at"} \subseteq call.args.keys
    /\ HasIdea(db, call.id)
    /\ getIdea(db, call.id).body = Text_d
    /\ getIdea(db, call.id).id # call.args.id
    /\ getIdea(db, call.id).created_at # call.args.created_at

\* C9: an updateIdea call that returns for a stored id sets exactly the
\* supplied fields among title, body and tags of that record to the
\* supplied values and its updated_at to the current time, and leaves every
\* other field of it and every other record unchanged.
C9_UpdateFrame ==
    [][ (/\ CallStep("updateIdea")
         /\ call'.outcome = "returned"
         /\ HasIdea(db, call'.id))
        => (/\ Len(db'.rows) = Len(db.rows)
            /\ \A i \in DOMAIN db.rows :
                   LET old == ReadRow(db.rows[i])
                       new == ReadRow(db'.rows[i])
                   IN  IF db.rows[i].id # call'.id THEN new = old
                       ELSE /\ DOMAIN new = DOMAIN old
                            /\ \A c \in DOMAIN old :
                                   new[c] =
                                     IF c \in call'.args.keys
                                            \cap {"title", "body", "tags"}
                                     THEN call'.args[c]
                                     ELSE IF c = "updated_at"
                                     THEN toISOString(clock)
                                     ELSE old[c]) ]_vars

\* an update of the tags alone was applied, at a later instant than the
\* creation, to one of two stored records
C9_Witness ==
    /\ call.op = "updateIdea"
    /\ call.outcome = "returned"
    /\ call.args.keys = {"tags"}
    /\ Len(db.rows) = 2
    /\ HasIdea(db, call.id)
    /\ getIdea(db, call.id).tags = <<Text_u, Text_t>>
    /\ getIdea(db, call.id).created_at = toISOString(FirstInstant)
    /\ getIdea(db, call.id).updated_at = toISOString(FirstInstant + 1)

DistinctIds(d) ==
    \A i, j \in DOMAIN d.rows : d.rows[i].id = d.rows[j].id => i = j

\* C11 as stated: no two records share an id, and a createIdea call that
\* returns never returns an id that an earlier createIdea call of the same
\* store lifetime returned.
C11_IdsNeverRepeat ==
    [][ /\ DistinctIds(db')
        /\ (CallStep("createIdea") /\ call'.outcome = "returned")
             => call'.ret \notin issued ]_vars

\* C11 as amended: no two records share an id.  A createIdea call that
\* returns, returns an id that no stored record had when it was called; a
\* call whose generated id is that of a stored record throws and changes
\* neither the collection nor the slot.  An id whose record has been
\* deleted can be returned again.
C11_IdsDistinctAmongStored ==
    [][ /\ DistinctIds(db')
        /\ (CallStep("createIdea") /\ call'.outcome = "returned")
             => (/\ call'.ret = call'.id
                 /\ ~ HasIdea(db, call'.id)
                 /\ HasIdea(db', call'.id))
        /\ (CallStep("createIdea") /\ HasIdea(db, call'.id))
             => (/\ call'.outcome = "threw"
                 /\ db' = db
                 /\ slot' = slot) ]_vars

\* createIdea generated the id of one of two stored records, both created
\* in this store lifetime, and threw
C11_Witness ==
    /\ call.op = "createIdea"
    /\ call.outcome = "threw"
    /\ call.wrote = "none"
    /\ issued = Ids
    /\ Len(db.rows) = 2
    /\ HasIdea(db, call.id)

\* C12: a createIdea call that returns has added exactly one record, which
\* holds the given title, body and tags and the current instant as both
\* created_at and updated_at; it returns that record's id, which no record
\* had before; the records stored before are unchanged; getIdea of the
\* returned id yields the new record.
C12_CreateAddsOneRecord ==
    [][ (CallStep("createIdea") /\ call'.outcome = "returned")
        => (/\ Len(db'.rows) = Len(db.rows) + 1
            /\ \A i \in DOMAIN db.rows : db'.rows[i] = db.rows[i]
            /\ ~ HasIdea(db, call'.ret)
            /\ LET new == ReadRow(db'.rows[Len(db'.rows)])
               IN  /\ new.id = call'.ret
                   /\ new.title = call'.args.title
                   /\ new.body = call'.args.body
                   /\ new.tags = call'.args.tags
                   /\ new.created_at = toISOString(clock)
                   /\ new.updated_at = new.created_at
                   /\ getIdea(db', call'.ret) = new) ]_vars

\* a second record was created at a later instant than the first
C12_Witness ==
    /\ call.op = "createIdea"
    /\ call.outcome = "returned"
    /\ Len(db.rows) = 2
    /\ db.rows[2].id = call.ret
    /\ ReadRow(db.rows[2]).tags = <<Text_t, Text_u>>
    /\ db.rows[1].created_at = toISOString(FirstInstant)
    /\ db.rows[2].created_at = toISOString(FirstInstant + 1)
    /\ db.rows[2].updated_at = toISOString(FirstInstant + 1)

\* C13: a getIdea call returns; it returns the record whose id is the one
\* asked for when the collection has one, and null otherwise.
C13_GetIdeaFindsById ==
    call.op = "getIdea"
        => (/\ call.outcome = "returned"
            /\ IF \E i \in DOMAIN db.rows : db.rows[i].id = call.id
               THEN /\ call.ret # NoIdea
                    /\ call.ret.id = call.id
                    /\ \E i \in DOMAIN db.rows : call.ret = ReadRow(db.rows[i])
               ELSE call.ret = NoIdea)

\* getIdea returned null for the id that the one stored record, a retitled
\* one, does not have
C13_Witness ==
    /\ call.op = "getIdea"
    /\ Len(db.rows) = 1
    /\ db.rows[1].title = Text_c
    /\ db.rows[1].id # call.id
    /\ call.ret = NoIdea

Stored(d) == {d.rows[i].id : i \in DOMAIN d.rows}

IdsOf(ideas) == [i \in DOMAIN ideas |-> ideas[i].id]

\* the place of the record with the given id in the table (rowid order,
\* which is the order of insertion)
Place(d, id) == CHOOSE i \in DOMAIN d.rows : d.rows[i].id = id

\* A, B and C were created in this order at distinct instants, B and C
\* have not been updated since, and A was updated after C was created
ListingScenario ==
    /\ IdsOf(db.rows) = <<Id_A, Id_B, Id_C>>
    /\ TextLess(db.rows[1].created_at, db.rows[2].created_at)
    /\ TextLess(db.rows[2].created_at, db.rows[3].created_at)
    /\ db.rows[2].updated_at = db.rows[2].created_at
    /\ db.rows[3].updated_at = db.rows[3].created_at
    /\ TextLeq(db.rows[3].created_at, db.rows[1].updated_at)

\* C15: what getAllIdeas returns holds every record of the collection
\* exactly once and no updated_at in it is followed by a greater one; after
\* A, B and C were created in this order at distinct instants and A was
\* updated, it is [A, C, B].
C15_ListedByUpdatedAtDescending ==
    call.op = "getAllIdeas"
        => (/\ Len(call.ret) = Len(db.rows)
            /\ \A i \in DOMAIN db.rows :
                   Cardinality({j \in DOMAIN call.ret :
                                   call.ret[j] = ReadRow(db.rows[i])}) = 1
            /\ \A i, j \in DOMAIN call.ret :
                   i < j => TextLeq(call.ret[j].updated_at,
                                    call.ret[i].updated_at)
            /\ ListingScenario => IdsOf(call.ret) = <<Id_A, Id_C, Id_B>>)

\* the listing after A, B, C were created at three instants and A was
\* updated at a fourth
C15_Witness ==
    /\ call.op = "getAllIdeas"
    /\ ListingScenario
    /\ db.rows[1].created_at = toISOString(FirstInstant)
    /\ db.rows[1].updated_at = toISOString(FirstInstant + 3)
    /\ db.rows[3].created_at = toISOString(FirstInstant + 2)
    /\ IdsOf(call.ret) = <<Id_A, Id_C, Id_B>>

CurrentTags(d) ==
    UNION {Range(Collection(d)[i].tags) : i \in DOMAIN Collection(d)}

\* C17: what getAllTags returns holds exactly the tags of the current
\* records, each once, in ascending order of their character codes (capital
\* letters before small ones); for two records tagged "b","a" and "a","c"
\* it is "a","b","c".
C17_TagsDistinctAndSorted ==
    call.op = "getAllTags"
        => (/\ Range(call.ret) = CurrentTags(db)
            /\ \A i, j \in DOMAIN call.ret :
                   i < j => TextLess(call.ret[i], call.ret[j])
            /\ (/\ Len(db.rows) = 2
                /\ {Collection(db)[i].tags : i \in DOMAIN db.rows}
                      = {<<Text_b, Text_a>>, <<Text_a, Text_c>>})
                 => call.ret = <<Text_a, Text_b, Text_c>>)

\* the tags of two records tagged "b","a" and "a","c" that were created at
\* two instants
C17_Witness ==
    /\ call.op = "getAllTags"
    /\ Len(db.rows) = 2
    /\ Collection(db)[1].tags = <<Text_b, Text_a>>
    /\ Collection(db)[2].tags = <<Text_a, Text_c>>
    /\ db.rows[1].created_at = toISOString(FirstInstant)
    /\ db.rows[1].updated_at = toISOString(FirstInstant)
    /\ db.rows[2].created_at = toISOString(FirstInstant + 1)
    /\ call.ret = <<Text_a, Text_b, Text_c>>

\* C18: what exportToJSON returns has DB_VERSION as its schema_version, and
\* its ideas are what getAllIdeas returns in the same state: the same
\* records in the same order.
C18_ExportIsTheListing ==
    call.op = "exportToJSON"
        => (/\ call.ret.schema_version = DB_VERSION
            /\ call.ret.ideas = getAllIdeas(db)
            /\ Len(call.ret.ideas) = Len(db.rows)
            /\ \A i, j \in DOMAIN call.ret.ideas :
                   i < j => TextLeq(call.ret.ideas[j].updated_at,
                                    call.ret.ideas[i].updated_at))

\* an export of two records of which the first inserted was updated last
C18_Witness ==
    /\ call.op = "exportToJSON"
    /\ Len(db.rows) = 2
    /\ TextLess(db.rows[2].updated_at, db.rows[1].updated_at)
    /\ IdsOf(call.ret.ideas) = <<db.rows[1].id, db.rows[2].id>>
    /\ call.ret.ideas[1].title = Text_c

\* C19 as stated: every idea of the export carries exactly the fields id,
\* title, body, tags, created_at and updated_at.
C19_ExportHasSixFields ==
    call.op = "exportToJSON"
        => \A i \in DOMAIN call.ret.ideas :
               DOMAIN call.ret.ideas[i] = ExportFields

\* C19 as amended: every idea of the export carries every column of the
\* ideas table: id, title, body, stage, tags, essence, insight, next_action,
\* created_at and updated_at; its tags are the array parsed from the stored
\* text, and the other fields are as stored.
C19_ExportHasAllColumns ==
    call.op = "exportToJSON"
        => \A i \in DOMAIN call.ret.ideas :
               LET idea == call.ret.ideas[i]
                   row == db.rows[Place(db, idea.id)]
               IN  /\ DOMAIN idea = Range(SchemaColumns)
                   /\ IsArray(idea.tags)
                   /\ JSONstringify(idea.tags) = row.tags
                   /\ \A c \in DOMAIN idea \ {"tags"} : idea[c] = row[c]

\* an export of a record with two tags and of a record migrated from the
\* table without tags
C19_Witness ==
    /\ call.op = "exportToJSON"
    /\ Len(call.ret.ideas) = 2
    /\ call.ret.ideas[1].tags = <<Text_t, Text_u>>
    /\ call.ret.ideas[1].stage = Text_captured
    /\ call.ret.ideas[1].essence = Null
    /\ call.ret.ideas[2].tags = <<>>
    /\ call.ret.ideas[2].created_at = toISOString(FirstInstant - 1)

ReadOps == {"getIdea", "getAllIdeas", "getAllTags", "exportToJSON"}

\* C20: a getIdea, getAllIdeas, getAllTags or exportToJSON call, for any id
\* and in any state, returns, leaves the in-memory database as it was and
\* makes no write to localStorage.
C20_ReadsChangeNothing ==
    [][ (clock' = clock /\ call'.op \in ReadOps)
        => (/\ call'.outcome = "returned"
            /\ call'.wrote = "none"
            /\ db' = db
            /\ slot' = slot
            /\ rejected' = rejected) ]_vars

\* getIdea was called with an id that no record has, on a collection
\* holding a migrated record that has been retitled
C20_Witness ==
    /\ call.op = "getIdea"
    /\ call.ret = NoIdea
    /\ Len(db.rows) = 1
    /\ db.rows[1].created_at = toISOString(FirstInstant - 1)
    /\ db.rows[1].title = Text_c
    /\ slot = Encoding(db)

\* C21: when init finds the slot empty and returns, the store holds the
\* empty collection and the slot already holds a valid encoding of the empty
\* collection, with the tags column; an init that starts from that slot
\* takes the load path (it writes nothing) and holds the empty collection.
C21_FirstInitPersistsEmpty ==
    [][ /\ (/\ call'.op = "init"
            /\ call'.outcome = "returned"
            /\ ~ Truthy(slot))
           => /\ db' = createSchema
              /\ db'.rows = <<>>
              /\ ready'
              /\ Truthy(slot')
              /\ Load(slot') = db'
              /\ "tags" \in Range(Load(slot').cols)
              /\ ~ MigrationNeeded(Load(slot'))
              /\ Collection(Reinit(slot')) = <<>>
        /\ (/\ call'.op = "init"
            /\ ready
            /\ db.rows = <<>>
            /\ call.op = "init"
            /\ call.wrote = "ok"
            /\ call' # call)
           => /\ call'.outcome = "returned"
              /\ call'.wrote = "none"
              /\ slot' = slot
              /\ db'.open
              /\ Collection(db') = <<>> ]_vars

\* the second init in a row returned: it loaded the slot the first one
\* wrote and holds no record
C21_Witness ==
    /\ call.op = "init"
    /\ call.outcome = "returned"
    /\ call.wrote = "none"
    /\ slot = Encoding(createSchema)
    /\ db = createSchema
    /\ rejected = 1

\* C22: when init loads an encoding written without the tags column and
\* returns, every record it held reads back with tags = [] and with its
\* other fields as they were, and the slot has been rewritten with an
\* encoding that has the tags column.
C22_MigrationRewritesSlot ==
    [][ (/\ call'.op = "init"
         /\ call'.outcome = "returned"
         /\ Truthy(slot)
         /\ MigrationNeeded(Load(slot)))
        => \E old \in {Load(slot).rows} :
               /\ DOMAIN db'.rows = DOMAIN old
               /\ \A i \in DOMAIN old :
                      /\ ReadRow(db'.rows[i]).tags = <<>>
                      /\ \A c \in DOMAIN old[i] :
                             ReadRow(db'.rows[i])[c] = old[i][c]
               /\ "tags" \in Range(Load(slot').cols) ]_vars

\* the stored value is unparseable or structurally invalid: it is not
\* base64, or what it decodes to has no ideas table
Corrupt(savedDb) == ~ IsBase64(savedDb) \/ Load(savedDb) = NoTable

\* C23: when the slot holds a value that is unparseable or structurally
\* invalid, init fails: it does not report success, and it leaves the stored
\* value as it is.
C23_CorruptSlotFailsInit ==
    [][ (/\ call'.op = "init"
         /\ call' # call
         /\ Truthy(slot)
         /\ Corrupt(slot))
        => /\ call'.outcome = "threw"
           /\ ~ ready'
           /\ slot' = slot ]_vars

\* the tags hold no empty string and no tag twice
CleanTags(tags) ==
    /\ \A i \in DOMAIN tags : tags[i] # EmptyText
    /\ \A i, j \in DOMAIN tags : tags[i] = tags[j] => i = j

\* a createIdea or updateIdea that was given an array of tags has returned
\* and the idea is stored
TagsStoredStep ==
    /\ call'.op \in {"createIdea", "updateIdea"}
    /\ call'.outcome = "returned"
    /\ call' # call
    /\ "tags" \in call'.args.keys
    /\ IsArray(call'.args.tags)
    /\ HasIdea(db', call'.id)

\* C24: no record's tags contains an empty string or a duplicate, whatever
\* tags argument was passed to createIdea or updateIdea; tags given with
\* duplicates are stored deduplicated, first occurrences in order.
C24_StoredTagsClean ==
    /\ [][ (TagsStoredStep /\ \A i \in DOMAIN call'.args.tags :
                                  call'.args.tags[i] # EmptyText)
            => getIdea(db', call'.id).tags = FirstSeen(call'.args.tags) ]_vars
    /\ [](\A i \in DOMAIN db.rows :
              IsArray(ReadRow(db.rows[i]).tags)
                  => CleanTags(ReadRow(db.rows[i]).tags))

\* C24 as amended: createIdea and updateIdea store the tags they are given
\* as they are: the idea reads back with exactly the given sequence,
\* duplicates and empty strings included.
C24_TagsStoredAsGiven ==
    [][ TagsStoredStep
        => getIdea(db', call'.id).tags = call'.args.tags ]_vars

\* an idea holds the tag "t" twice and the other an empty tag
C24_Witness ==
    /\ Len(db.rows) = 2
    /\ ReadRow(db.rows[1]).tags = <<Text_t, Text_u, Text_t>>
    /\ ReadRow(db.rows[2]).tags = <<EmptyText, Text_u, Text_u>>
    /\ call.op = "updateIdea"
    /\ call.id = db.rows[2].id

\* C26: every record that getIdea or getAllIdeas returns has tags that is a
\* sequence, never null, for every tags argument createIdea and updateIdea
\* accept, an explicit null included.
C26_TagsAlwaysSequence ==
    /\ (call.op = "getIdea" /\ call.outcome = "returned" /\ call.ret # NoIdea)
           => IsArray(call.ret.tags)
    /\ (call.op = "getAllIdeas" /\ call.outcome = "returned")
           => \A i \in DOMAIN call.ret : IsArray(call.ret[i].tags)

\* C25: with two store instances over one slot nothing is detected or
\* merged: after every save the slot holds exactly the collection of the
\* instance that saved, so an idea that only the other instance holds is not
\* in it.
C25_LastWriterWins ==
    call.wrote = "ok"
        => /\ call.outcome = "returned"
           /\ slot = Encoding(db)
           /\ Collection(Reinit(slot)) = Collection(db)
           /\ \A i \in DOMAIN other.db.rows :
                  ~ HasIdea(db, other.db.rows[i].id)
                      => ~ HasIdea(Reinit(slot), other.db.rows[i].id)

\* both tabs are loaded; this one has just saved an idea the other does not
\* hold, and the other holds an idea, saved before, that this one does not
C25_Witness ==
    /\ ready
    /\ other.ready
    /\ call.op = "createIdea"
    /\ call.wrote = "ok"
    /\ HasIdea(db, call.id)
    /\ ~ HasIdea(other.db, call.id)
    /\ \E i \in DOMAIN other.db.rows : ~ HasIdea(db, other.db.rows[i].id)

\* C27: at most one hide timer is pending at any time and it is the one
\* blurTimeoutId names; while the tags input or a suggestion has the focus
\* none is pending (the focus event cancelled it); and no pending timer was
\* scheduled before the most recent focus event in the widget, so the
\* dropdown is never hidden by such a timer.
C27_OneHideTimer ==
    /\ Cardinality(ui.timers) <= 1
    /\ ui.timers \subseteq {ui.blurTimeoutId}
    /\ IsWidget(ui.focus) => ui.timers = {}
    /\ ui.stale = {}

\* the focus left the widget from a suggestion and the hide timer of that
\* blur is pending
C27_Witness ==
    /\ ui.event.type = "focus"
    /\ ui.focus = Outside
    /\ ui.shown
    /\ ui.selectedSuggestionIndex = 1
    /\ ui.timers = {1}
    /\ ui.blurTimeoutId = 1

\* number of suggestions the dropdown displays
Rendered(u) == IF u.shown THEN Len(u.items) ELSE 0

\* C28: Enter in the tags input adds the typed text, trimmed, unless a
\* suggestion of the dropdown that is displayed is selected: a suggestion of
\* a dropdown that has been hidden is never added in its place.
C28_EnterAddsTypedText ==
    [][ (ui'.event.type = "Enter" /\ ui' # ui)
        => ui'.currentTags =
               addTag(ui.currentTags,
                      IF /\ ui.selectedSuggestionIndex >= 0
                         /\ ui.selectedSuggestionIndex < Rendered(ui)
                      THEN ui.items[ui.selectedSuggestionIndex + 1]
                      ELSE Trim(ui.tagsInput)) ]_vars

\* C29: selectedSuggestionIndex is always between -1 and the number of
\* displayed suggestions minus one; ArrowDown stops at the last suggestion
\* and ArrowUp at index 0; rendering or hiding the dropdown resets it to -1.
C29_SelectionWithinRendered ==
    /\ [][ /\ (ui'.event.type = "ArrowDown" /\ ui' # ui)
               => ui'.selectedSuggestionIndex <= Rendered(ui) - 1
           /\ (ui'.event.type = "ArrowUp" /\ ui' # ui /\ Rendered(ui) > 0)
               => ui'.selectedSuggestionIndex >= 0
           /\ (ui'.shown # ui.shown \/ ui'.items # ui.items)
               => ui'.selectedSuggestionIndex = -1 ]_vars
    /\ [](ui.selectedSuggestionIndex \in (-1)..(Rendered(ui) - 1))

\* C30: a submit with a title or a body that is empty after trimming calls
\* neither createIdea nor updateIdea and leaves the collection and the slot
\* as they are; with both non-empty the store is called once: updateIdea
\* with the id of the form when it carries one, createIdea otherwise, with
\* the trimmed values and the tags of the form.
C30_SubmitCallsStoreOnce ==
    [][ ui'.event.type = "submit"
        => IF \/ Trim(ui'.event.title) = EmptyText
              \/ Trim(ui'.event.body) = EmptyText
           THEN UNCHANGED <<db, slot, call>>
           ELSE /\ call'.op = IF ui.idField # EmptyText THEN "updateIdea"
                              ELSE "createIdea"
                /\ ui.idField # EmptyText => call'.id = ui.idField
                /\ call'.args.title = Trim(ui'.event.title)
                /\ call'.args.body = Trim(ui'.event.body)
                /\ call'.args.tags = ui.currentTags
                /\ call'.outcome = "returned"
                       => /\ HasIdea(db', call'.id)
                          /\ Len(db'.rows) =
                                 Len(db.rows)
                                     + (IF call'.op = "createIdea" THEN 1 ELSE 0)
                          /\ slot' = Encoding(db') ]_vars

\* a submit with a blank title has just been refused while an idea with a
\* tag is stored and the form is in edit mode
C30_Witness ==
    /\ ui.event.type = "submit"
    /\ ui.event.title = Blank
    /\ ui.view = "form-view"
    /\ ui.idField = Id_A
    /\ call.op = "createIdea"
    /\ call.outcome = "returned"
    /\ call.args.tags = <<Text_d>>
    /\ Len(db.rows) = 1

====
